---- MODULE Spec2Model ----
(***************************************************************************)
(* A model of the three scene components of the repository:                *)
(*   src/components/MetropolisScene.tsx  (CyberAudioEngine, MetropolisScene)*)
(*   src/components/SkyPodScene.tsx      (SkyPodScene)                      *)
(*   src/components/GafferScene.tsx      (GafferScene)                      *)
(*                                                                         *)
(* Times of the audio clock are in milliseconds.                            *)
(* Two specifications:                                                      *)
(*   SpecAudio  the audio engine, toggleAudio and the audio effect          *)
(*   Spec       the scene effects, one scene component on the page at a time*)
(***************************************************************************)
EXTENDS Integers, Sequences, FiniteSets

VARIABLES
    \* ---- CyberAudioEngine (one instance, held by audioRef) ----
    ctxState,           \* "none" (ctx = null) | "running" | "suspended" (ctx.state)
    ctxOps,             \* resume()/suspend() requests that have not taken effect yet
    currentTime,        \* ctx.currentTime, ms
    isPlaying,
    nextNoteTime,       \* ms
    schedulerTimer,     \* 0 = null, else the id setTimeout returned
    currentNote,
    timers,             \* the browser's pending timeouts (ids)
    lastSched,          \* observation: the scheduler() run of the latest step and its
                        \* scheduleNote calls (NoSched when the step ran no scheduler loop)
    trainGain,          \* 0 = null, else the rumble source whose gain node it is
    graph,              \* the looping sources started in the audio graph
    session,            \* observation: the latest scheduler() run and scheduleNote call
                        \* of the playing session (-1: none yet)
    lastCall,           \* observation: the engine method called directly in the latest step
    \* ---- MetropolisScene: audio effect and toggleAudio ----
    audioMounted,       \* the audio effect has run and its cleanup has not
    audioEnabled,       \* React state
    shownAudioEnabled,  \* audioEnabled of the latest render (button label, toggleAudio's closure)
    pendingToggles,     \* toggleAudio calls suspended at `await init()`
    overlapped,         \* observation: a click was issued while another one was awaiting
    \* ---- the scene effect of the component on the page ----
    page,               \* the scene component on the page
    effectLive,         \* its scene effect has run and the cleanup has not
    runs,               \* runs of the scene effect on this component instance
    rafPending,         \* the browser's pending animation-frame requests (ids)
    animationId,        \* MetropolisScene: `let animationId` of the effect run, 0 = undefined
    requestRef,         \* SkyPodScene, GafferScene: requestRef.current, 0 = null
    frames,             \* animate invocations so far
    \* ---- MetropolisScene ----
    isPaused,           \* React state
    shownIsPaused,      \* isPaused of the latest render (button label, togglePause's closure)
    isPausedRef,        \* isPausedRef.current
    pauseClicks,        \* observation: togglePause calls so far
    trainX, podX,       \* closure variables of the effect run, 1/100 world units
    rain,               \* y of the rain drops, 1/100
    drones,             \* dronesRef.current
    particles,          \* particlesRef.current
    lastFrame,          \* observation: the animate invocation of the latest step
    cameraMode,         \* React state
    shownCameraMode,    \* cameraMode of the latest render (button label, toggleCamera's closure)
    cameraModeRef,      \* cameraModeRef.current
    controlsEnabled,    \* controlsRef.current.enabled
    \* ---- SkyPodScene ----
    isNightVision,      \* prop
    nightSwitches,      \* observation: changes of the prop so far
    sceneRef,           \* sceneRef.current: 0 = null, else the run that built the scene
    lighting,           \* background, fog and lights of that scene
    boatState,
    bullets,
    skyParticles,
    skyMeshes,          \* bullet and particle meshes in the scene graph
    strays,             \* observation: frames in which the gun held fire or a bullet strayed
    \* ---- GafferScene ----
    startPos,
    hasDown,            \* observation: a pointerdown reached the canvas in this effect run
    opened,             \* window.open calls so far
    cursor,             \* container.style.cursor
    lastEvent,          \* observation: the pointer event handled in the latest step
    \* ---- one animated object followed on its own ----
    part,               \* which object: "none" where the scenes or the engine are followed
    body,               \* the fields of that object
    partObs             \* observation: what the latest update of the object did

audioVars == <<ctxState, ctxOps, currentTime, isPlaying, nextNoteTime, schedulerTimer,
               currentNote, timers, lastSched, trainGain, graph, session, lastCall,
               audioMounted, audioEnabled, shownAudioEnabled, pendingToggles, overlapped>>

lifeVars == <<page, effectLive, runs, rafPending, animationId, requestRef, frames>>
metroVars == <<isPaused, shownIsPaused, isPausedRef, pauseClicks, trainX, podX, rain,
               drones, particles, lastFrame, cameraMode, shownCameraMode, cameraModeRef,
               controlsEnabled>>
skyVars == <<isNightVision, nightSwitches, sceneRef, lighting, boatState, bullets,
             skyParticles, skyMeshes,
             strays>>
gafferVars == <<startPos, hasDown, opened, cursor, lastEvent>>
partVars == <<part, body, partObs>>
sceneVars == <<lifeVars, metroVars, skyVars, gafferVars, partVars>>

vars == <<audioVars, sceneVars>>

-----------------------------------------------------------------------------
(* Bounds of the model *)
MaxTime == 300        \* the audio clock stops advancing here (ms)
TickMs == 100         \* granularity of the audio clock (ms)
MaxPending == 2       \* toggleAudio calls awaiting at once
MaxCtxOps == 2        \* resume/suspend requests in flight when a click is accepted
MaxSources == 2       \* looping sources of a kind told apart (more count as this many)

(* Program constants *)
Tempo == 100
LookaheadMs == 25
ScheduleAheadTime == 100
PatternLength == 16

-----------------------------------------------------------------------------
(* CyberAudioEngine *)

EighthMs == (50 * (60000 \div Tempo)) \div 100

\* nextNote(): 0.25 * (60.0 / tempo) seconds, in ms
SixteenthMs == (25 * (60000 \div Tempo)) \div 100

NextNoteWrapsLate(n) == IF n + 1 = PatternLength + 1 THEN 0 ELSE n + 1

\* nextNote(): currentNote++; if (currentNote === 16) currentNote = 0
NextNote(n) == IF n + 1 = PatternLength THEN 0 ELSE n + 1

LoopCondInclusive(nnt, now) == nnt <= now + ScheduleAheadTime

\* scheduler(): the while condition
LoopCond(nnt, now) == nnt < now + ScheduleAheadTime

\* scheduler(): the while loop; the calls it makes are collected in `calls`
RECURSIVE SchedulerLoop(_, _, _, _)
SchedulerLoop(nnt, note, now, calls) ==
    IF LoopCond(nnt, now)
    THEN SchedulerLoop(nnt + SixteenthMs, NextNote(note), now,
                       Append(calls, [beat |-> note, time |-> nnt, now |-> now]))
    ELSE [nextNoteTime |-> nnt, currentNote |-> note, calls |-> calls, now |-> now]

\* window.setTimeout: a handle no pending timeout and no holder uses
FreshTimer(held) ==
    CHOOSE i \in 1..(Cardinality(timers) + 2) :
        /\ i \notin timers \cup {held}
        /\ \A j \in 1..(Cardinality(timers) + 2) : j \notin timers \cup {held} => i <= j

NoSched ==
    [ran |-> FALSE, calls |-> <<>>, exitNext |-> 0, exitNow |-> 0, since |-> -1,
     prevNote |-> -1]

NoSession == [lastRun |-> -1, lastNote |-> -1]

NoCall == [method |-> "none", threw |-> FALSE]

\* one more source of a kind
Inc(n) == IF n < MaxSources THEN n + 1 ELSE n

StartDroneUnguarded(ctx, g) ==
    IF ctx = "none"
    THEN [graph |-> g, threw |-> TRUE]
    ELSE [graph |-> [g EXCEPT !.droneSets = Inc(@)], threw |-> FALSE]

\* startDrone(): two oscillators and an LFO, started and never stopped
StartDrone(ctx, g) ==
    IF ctx = "none"
    THEN [graph |-> g, threw |-> FALSE]
    ELSE [graph |-> [g EXCEPT !.droneSets = Inc(@)], threw |-> FALSE]

\* startRainNoise(): a looping noise source
StartRainNoise(ctx, g) ==
    IF ctx = "none"
    THEN [graph |-> g, threw |-> FALSE]
    ELSE [graph |-> [g EXCEPT !.rainSources = Inc(@)], threw |-> FALSE]

\* startTrainRumble(): a looping noise source behind a new gain node, kept in trainGain
StartTrainRumble(ctx, g, tg) ==
    IF ctx = "none"
    THEN [graph |-> g, trainGain |-> tg, threw |-> FALSE]
    ELSE [graph |-> [g EXCEPT !.rumbleSources = Inc(@)],
          trainGain |-> Inc(g.rumbleSources), threw |-> FALSE]

\* setTrainVolume(volume): sets the target of trainGain.gain, no field of the engine
SetTrainVolume(ctx, tg) ==
    [threw |-> FALSE, applied |-> (tg # 0 /\ ctx # "none")]

\* triggerExplosion(): one-shot sources, no field of the engine
TriggerExplosion(ctx) ==
    [threw |-> FALSE, sounded |-> ctx # "none",
     sources |-> IF ctx # "none" THEN 2 ELSE 0]

\* scale (frequencies in 1/100 Hz); scale[i] of the 0-based array, -1 for undefined
Scale ==
    <<6541, 7778, 8731, 9800, 11654, 13081, 15556, 17461, 19600, 23308,
      26163, 31113, 34923, 39200, 46616>>
ScaleAt(i) == IF i >= 0 /\ i < Len(Scale) THEN Scale[i + 1] ELSE -1

ArpIndexFromSix(idxDraw) == 6 + idxDraw

\* const noteIdx = 5 + Math.floor(Math.random() * 10)
ArpIndex(idxDraw) == 5 + idxDraw

\* the values of Math.random() > 0.8 and of Math.floor(Math.random() * 10)
ArpDraws == BOOLEAN
IdxDraws == 0..9
PanDraws == {-100, 0, 100}              \* (Math.random() * 2) - 1, in 1/100

ScheduleNoteSourcesHatOnFour(beat, arpDraw, idxDraw, panDraw) ==
    [bass |-> IF beat % 2 = 0 THEN (IF beat % 8 = 0 THEN 3270 ELSE 6541) ELSE 0,
     arp |-> IF arpDraw /\ beat % 2 # 0 THEN ArpIndex(idxDraw) ELSE -1,
     arpFreq |-> IF arpDraw /\ beat % 2 # 0 THEN ScaleAt(ArpIndex(idxDraw)) ELSE 0,
     pan |-> IF arpDraw /\ beat % 2 # 0 THEN panDraw ELSE 0,
     hihat |-> beat % 4 = 0]

\* scheduleNote(beatNumber, time) on a created context: the sources it starts (bass
\* frequency or 0, arpeggio index or -1 and its frequency, hi-hat)
ScheduleNoteSources(beat, arpDraw, idxDraw, panDraw) ==
    [bass |-> IF beat % 2 = 0 THEN (IF beat % 8 = 0 THEN 3270 ELSE 6541) ELSE 0,
     arp |-> IF arpDraw /\ beat % 2 # 0 THEN ArpIndex(idxDraw) ELSE -1,
     arpFreq |-> IF arpDraw /\ beat % 2 # 0 THEN ScaleAt(ArpIndex(idxDraw)) ELSE 0,
     pan |-> IF arpDraw /\ beat % 2 # 0 THEN panDraw ELSE 0,
     hihat |-> beat % 4 = 2]

\* scheduleNote(beatNumber, time): one-shot sources, no field of the engine
ScheduleNote(ctx, beat, time) ==
    [threw |-> FALSE, sounded |-> ctx # "none"]

\* scheduler(), entered with nextNoteTime = nnt0, isPlaying = playing, the timeout
\* table `ts` and the context state `ctx`
Scheduler(nnt0, playing, ts, ctx) ==
    IF ~playing \/ ctx = "none"
    THEN /\ nextNoteTime' = nnt0
         /\ timers' = ts
         /\ lastSched' = NoSched
         /\ UNCHANGED <<currentNote, schedulerTimer, session>>
    ELSE LET r == SchedulerLoop(nnt0, currentNote, currentTime, <<>>)
             id == FreshTimer(schedulerTimer)
         IN /\ nextNoteTime' = r.nextNoteTime
            /\ currentNote' = r.currentNote
            /\ lastSched' = [ran |-> TRUE, calls |-> r.calls,
                             exitNext |-> r.nextNoteTime, exitNow |-> r.now,
                             since |-> session.lastRun, prevNote |-> session.lastNote]
            /\ session' = [lastRun |-> r.now,
                           lastNote |-> IF r.calls = <<>> THEN session.lastNote
                                        ELSE r.calls[Len(r.calls)].time]
            /\ schedulerTimer' = id
            /\ timers' = ts \cup {id}

\* init(): creates the context unless there is one; the new context is running or,
\* when the autoplay policy holds it back, suspended
InitCtx(st) == IF ctxState = "none" THEN st ELSE ctxState

StartIgnoresPlaying(st) ==
    /\ ctxState' = InitCtx(st)
    /\ ctxOps' = IF ctxState' = "suspended" THEN Append(ctxOps, "resume") ELSE ctxOps
    /\ isPlaying' = TRUE
    /\ LET d == StartDrone(InitCtx(st), graph)
           n == StartRainNoise(InitCtx(st), d.graph)
           t == StartTrainRumble(InitCtx(st), n.graph, trainGain)
       IN /\ graph' = t.graph
          /\ trainGain' = t.trainGain
    /\ Scheduler(currentTime, TRUE, timers, InitCtx(st))

StartKeepsNextNoteTime(st) ==
    /\ ctxState' = InitCtx(st)
    /\ ctxOps' = IF ctxState' = "suspended" THEN Append(ctxOps, "resume") ELSE ctxOps
    /\ IF isPlaying
       THEN /\ lastSched' = NoSched
            /\ UNCHANGED <<isPlaying, nextNoteTime, currentNote, schedulerTimer, timers,
                           trainGain, graph, session>>
       ELSE /\ isPlaying' = TRUE
            /\ LET d == StartDrone(InitCtx(st), graph)
                   n == StartRainNoise(InitCtx(st), d.graph)
                   t == StartTrainRumble(InitCtx(st), n.graph, trainGain)
               IN /\ graph' = t.graph
                  /\ trainGain' = t.trainGain
            /\ Scheduler(nextNoteTime, TRUE, timers, InitCtx(st))

\* start()
Start(st) ==
    /\ ctxState' = InitCtx(st)
    /\ ctxOps' = IF ctxState' = "suspended" THEN Append(ctxOps, "resume") ELSE ctxOps
    /\ IF isPlaying
       THEN /\ lastSched' = NoSched
            /\ UNCHANGED <<isPlaying, nextNoteTime, currentNote, schedulerTimer, timers,
                           trainGain, graph, session>>
       ELSE /\ isPlaying' = TRUE
            /\ LET d == StartDrone(InitCtx(st), graph)
                   n == StartRainNoise(InitCtx(st), d.graph)
                   t == StartTrainRumble(InitCtx(st), n.graph, trainGain)
               IN /\ graph' = t.graph
                  /\ trainGain' = t.trainGain
            /\ Scheduler(currentTime, TRUE, timers, InitCtx(st))

StopKeepsPlaying ==
    /\ isPlaying' = isPlaying
    /\ ctxOps' = IF ctxState # "none" THEN Append(ctxOps, "suspend") ELSE ctxOps
    /\ timers' = IF schedulerTimer # 0 THEN timers \ {schedulerTimer} ELSE timers
    /\ lastSched' = NoSched
    /\ session' = NoSession
    /\ UNCHANGED <<ctxState, nextNoteTime, currentNote, schedulerTimer, trainGain, graph>>

\* stop()
Stop ==
    /\ isPlaying' = FALSE
    /\ ctxOps' = IF ctxState # "none" THEN Append(ctxOps, "suspend") ELSE ctxOps
    /\ timers' = IF schedulerTimer # 0 THEN timers \ {schedulerTimer} ELSE timers
    /\ lastSched' = NoSched
    /\ session' = NoSession
    /\ UNCHANGED <<ctxState, nextNoteTime, currentNote, schedulerTimer, trainGain, graph>>

\* the timeout set by scheduler() fires: () => this.scheduler()
TimerFire ==
    /\ \E id \in timers :
          Scheduler(nextNoteTime, isPlaying, timers \ {id}, ctxState)
    /\ isPlaying' = isPlaying
    /\ lastCall' = NoCall
    /\ UNCHANGED <<ctxState, ctxOps, currentTime, trainGain, graph, audioMounted,
                   audioEnabled, shownAudioEnabled, pendingToggles, overlapped>>
    /\ UNCHANGED sceneVars

\* the audio clock advances while the context runs
Tick ==
    /\ ctxState = "running"
    /\ currentTime < MaxTime
    /\ currentTime' = currentTime + TickMs
    /\ lastSched' = NoSched
    /\ lastCall' = NoCall
    /\ UNCHANGED <<ctxState, ctxOps, isPlaying, nextNoteTime, schedulerTimer, currentNote,
                   timers, trainGain, graph, session, audioMounted, audioEnabled,
                   shownAudioEnabled, pendingToggles, overlapped>>
    /\ UNCHANGED sceneVars

\* a resume() or suspend() takes effect
CtxApply ==
    /\ ctxOps # <<>>
    /\ ctxState' = IF Head(ctxOps) = "resume" THEN "running" ELSE "suspended"
    /\ ctxOps' = Tail(ctxOps)
    /\ lastSched' = NoSched
    /\ lastCall' = NoCall
    /\ UNCHANGED <<currentTime, isPlaying, nextNoteTime, schedulerTimer, currentNote,
                   timers, trainGain, graph, session, audioMounted, audioEnabled,
                   shownAudioEnabled, pendingToggles, overlapped>>
    /\ UNCHANGED sceneVars

-----------------------------------------------------------------------------
(* MetropolisScene: toggleAudio and the audio effect *)

\* toggleAudio, from an OFFLINE render: runs to `await audioRef.current.init()`
ToggleAudioOn ==
    /\ audioMounted
    /\ ~shownAudioEnabled
    /\ pendingToggles < MaxPending
    /\ Len(ctxOps) < MaxCtxOps
    /\ \E st \in {"running", "suspended"} : ctxState' = InitCtx(st)
    /\ pendingToggles' = pendingToggles + 1
    /\ overlapped' = (overlapped \/ pendingToggles > 0)
    /\ lastSched' = NoSched
    /\ lastCall' = NoCall
    /\ UNCHANGED <<ctxOps, currentTime, isPlaying, nextNoteTime, schedulerTimer,
                   currentNote, timers, trainGain, graph, session, audioMounted,
                   audioEnabled, shownAudioEnabled>>
    /\ UNCHANGED sceneVars

\* toggleAudio resumes after the await: start(); setAudioEnabled(true)
ToggleAudioResume ==
    /\ pendingToggles > 0
    /\ pendingToggles' = pendingToggles - 1
    /\ Start("running")
    /\ audioEnabled' = IF audioMounted THEN TRUE ELSE audioEnabled
    /\ lastCall' = NoCall
    /\ UNCHANGED <<currentTime, audioMounted, shownAudioEnabled, overlapped>>
    /\ UNCHANGED sceneVars

\* toggleAudio, from an ONLINE render: stop(); setAudioEnabled(false)
ToggleAudioOff ==
    /\ audioMounted
    /\ shownAudioEnabled
    /\ Len(ctxOps) < MaxCtxOps
    /\ Stop
    /\ audioEnabled' = FALSE
    /\ lastCall' = NoCall
    /\ UNCHANGED <<currentTime, audioMounted, shownAudioEnabled, pendingToggles,
                   overlapped>>
    /\ UNCHANGED sceneVars

\* React re-renders the component with the new audioEnabled
RenderAudio ==
    /\ audioMounted
    /\ shownAudioEnabled # audioEnabled
    /\ shownAudioEnabled' = audioEnabled
    /\ lastSched' = NoSched
    /\ lastCall' = NoCall
    /\ UNCHANGED <<ctxState, ctxOps, currentTime, isPlaying, nextNoteTime, schedulerTimer,
                   currentNote, timers, trainGain, graph, session, audioMounted,
                   audioEnabled, pendingToggles, overlapped>>
    /\ UNCHANGED sceneVars

\* cleanup of the audio effect: if (audioRef.current) audioRef.current.stop()
UnmountAudio ==
    /\ audioMounted
    /\ audioMounted' = FALSE
    /\ Stop
    /\ lastCall' = NoCall
    /\ UNCHANGED <<currentTime, audioEnabled, shownAudioEnabled, pendingToggles,
                   overlapped>>
    /\ UNCHANGED sceneVars

InitAudio ==
    /\ ctxState = "none"
    /\ ctxOps = <<>>
    /\ currentTime = 0
    /\ isPlaying = FALSE
    /\ nextNoteTime = 0
    /\ schedulerTimer = 0
    /\ currentNote = 0
    /\ timers = {}
    /\ lastSched = NoSched
    /\ trainGain = 0
    /\ graph = [droneSets |-> 0, rainSources |-> 0, rumbleSources |-> 0]
    /\ session = NoSession
    /\ lastCall = NoCall
    /\ audioMounted = TRUE
    /\ audioEnabled = FALSE
    /\ shownAudioEnabled = FALSE
    /\ pendingToggles = 0
    /\ overlapped = FALSE

NextAudio ==
    \/ ToggleAudioOn
    \/ ToggleAudioResume
    \/ ToggleAudioOff
    \/ RenderAudio
    \/ UnmountAudio
    \/ TimerFire
    \/ Tick
    \/ CtxApply

-----------------------------------------------------------------------------
(* CyberAudioEngine driven by calls of its methods *)

toggleVars == <<audioMounted, audioEnabled, shownAudioEnabled, pendingToggles, overlapped>>

\* the fields of the engine, with the timeouts and sources it owns
engineFields ==
    <<ctxState, isPlaying, nextNoteTime, schedulerTimer, currentNote, trainGain, timers,
      graph>>

Called(m, threw) == [method |-> m, threw |-> threw]

\* a caller invokes start()
CallStart ==
    /\ Len(ctxOps) < MaxCtxOps
    /\ \E st \in {"running", "suspended"} : Start(st)
    /\ lastCall' = Called("start", FALSE)
    /\ UNCHANGED <<currentTime, toggleVars, sceneVars>>

\* a caller invokes stop()
CallStop ==
    /\ Len(ctxOps) < MaxCtxOps
    /\ Stop
    /\ lastCall' = Called("stop", FALSE)
    /\ UNCHANGED <<currentTime, toggleVars, sceneVars>>

\* a caller invokes setTrainVolume(volume)
CallSetTrainVolume ==
    /\ lastCall' = Called("setTrainVolume", SetTrainVolume(ctxState, trainGain).threw)
    /\ lastSched' = NoSched
    /\ UNCHANGED <<engineFields, ctxOps, currentTime, session, toggleVars, sceneVars>>

\* a caller invokes triggerExplosion()
CallTriggerExplosion ==
    /\ lastCall' = [method |-> "triggerExplosion",
                    threw |-> TriggerExplosion(ctxState).threw,
                    sources |-> TriggerExplosion(ctxState).sources]
    /\ lastSched' = NoSched
    /\ UNCHANGED <<engineFields, ctxOps, currentTime, session, toggleVars, sceneVars>>

\* a caller invokes scheduleNote(beatNumber, time) before the context exists
CallScheduleNote ==
    /\ ctxState = "none"
    /\ \E beat \in 0..(PatternLength - 1) :
          lastCall' = Called("scheduleNote", ScheduleNote(ctxState, beat, currentTime).threw)
    /\ lastSched' = NoSched
    /\ UNCHANGED <<engineFields, ctxOps, currentTime, session, toggleVars, sceneVars>>

\* a caller invokes scheduler() before the context exists
CallScheduler ==
    /\ ctxState = "none"
    /\ Scheduler(nextNoteTime, isPlaying, timers, ctxState)
    /\ lastCall' = Called("scheduler", FALSE)
    /\ UNCHANGED <<ctxState, ctxOps, currentTime, isPlaying, trainGain, graph, toggleVars,
                   sceneVars>>

\* a caller invokes startDrone() before the context exists
CallStartDrone ==
    /\ ctxState = "none"
    /\ LET r == StartDrone(ctxState, graph)
       IN /\ graph' = r.graph
          /\ lastCall' = Called("startDrone", r.threw)
    /\ lastSched' = NoSched
    /\ UNCHANGED <<ctxState, ctxOps, currentTime, isPlaying, nextNoteTime, schedulerTimer,
                   currentNote, timers, trainGain, session, toggleVars, sceneVars>>

\* a caller invokes startRainNoise() before the context exists
CallStartRainNoise ==
    /\ ctxState = "none"
    /\ LET r == StartRainNoise(ctxState, graph)
       IN /\ graph' = r.graph
          /\ lastCall' = Called("startRainNoise", r.threw)
    /\ lastSched' = NoSched
    /\ UNCHANGED <<ctxState, ctxOps, currentTime, isPlaying, nextNoteTime, schedulerTimer,
                   currentNote, timers, trainGain, session, toggleVars, sceneVars>>

\* a caller invokes startTrainRumble() before the context exists
CallStartTrainRumble ==
    /\ ctxState = "none"
    /\ LET r == StartTrainRumble(ctxState, graph, trainGain)
       IN /\ graph' = r.graph
          /\ trainGain' = r.trainGain
          /\ lastCall' = Called("startTrainRumble", r.threw)
    /\ lastSched' = NoSched
    /\ UNCHANGED <<ctxState, ctxOps, currentTime, isPlaying, nextNoteTime, schedulerTimer,
                   currentNote, timers, session, toggleVars, sceneVars>>

NextEngine ==
    \/ CallStart
    \/ CallStop
    \/ TimerFire
    \/ Tick
    \/ CtxApply
    \/ CallSetTrainVolume
    \/ CallTriggerExplosion
    \/ CallScheduleNote
    \/ CallScheduler
    \/ CallStartDrone
    \/ CallStartRainNoise
    \/ CallStartTrainRumble

-----------------------------------------------------------------------------
(* The scene effects.  Lengths and positions are in 1/100 of a world unit. *)

(* Bounds of the scene model *)
MaxRuns == 2          \* runs of the scene effect on one component instance
MaxFrames == 4        \* animate invocations
MaxClicks == 2        \* togglePause clicks
RainDrops == 1        \* rain drops modelled (the scene has 12000)

(* Program constants *)
DroneCount == 5
TrackEnd == 20000
TrainSpeed == 200
PodSpeed == 20
ParticleLife == 60
OutOfBoundsTimer == 60
ParticlesPerExplosion == 6

Scenes == {"Metropolis", "SkyPod", "Gaffer"}

\* requestAnimationFrame: a handle no pending request and no holder uses
FreshFrame(held) ==
    CHOOSE i \in 1..(Cardinality(rafPending) + 2) :
        /\ i \notin rafPending \cup {held}
        /\ \A j \in 1..(Cardinality(rafPending) + 2) :
              j \notin rafPending \cup {held} => i <= j

Vec(a, b, c) == [x |-> a, y |-> b, z |-> c]
VecAdd(p, q) == [x |-> p.x + q.x, y |-> p.y + q.y, z |-> p.z + q.z]

-----------------------------------------------------------------------------
(* MetropolisScene: the animation frame *)

TrackStart == 0 - TrackEnd

\* inputs of the model: the values Math.random() and the scene geometry may yield
InitialTimerDraws ==                    \* respawnTimer: Math.random() * 100, per drone
    { <<1, 50, 50, 50, 50>>, <<50, 50, 50, 50, 2>> }
RainYChoices == {100}                   \* Math.random() * 200
SpawnChoices ==                         \* spawn position and velocity of a drone
    { [position |-> Vec(0, -500, -5000), velocity |-> Vec(-5, 5, 10)],
      [position |-> Vec(2500, -500, -9900), velocity |-> Vec(4, 9, 19)] }
WobbleChoices == {5}                    \* Math.sin(Date.now() ...) * 0.05
ExplodeTimerChoices == {30, 79}         \* 30 + Math.random() * 50
ParticleDraws ==                        \* the jitter and velocity of the six particles
    { [i \in 1..ParticlesPerExplosion |->
          [jitter |-> Vec(0, (i - 3) * 10, 0), velocity |-> Vec(0, (i - 4) * 5, 0)]] }

\* dronesRef.current.push({ mesh: templateDrone.clone(), isActive: false, ... })
NewDrone(t) ==
    [isActive |-> FALSE, respawnTimer |-> t, visible |-> TRUE,
     position |-> Vec(0, 0, 0), velocity |-> Vec(0, 0, 0)]

TrainStepWrapsLate(x, paused) ==
    IF ~paused
    THEN IF x > TrackEnd THEN TrackStart ELSE x + TrainSpeed
    ELSE x

TrainStepIgnoresPause(x, paused) ==
    IF x + TrainSpeed > TrackEnd THEN TrackStart ELSE x + TrainSpeed

\* animate: if (!isPausedRef.current) { trainX += trainSpeed; if (trainX > trackEnd) ... }
TrainStep(x, paused) ==
    IF ~paused
    THEN IF x + TrainSpeed > TrackEnd THEN TrackStart ELSE x + TrainSpeed
    ELSE x

\* animate: podX += podSpeed; if (podX > trackEnd) podX = trackStart
PodStep(x, paused) ==
    IF ~paused
    THEN IF x + PodSpeed > TrackEnd THEN TrackStart ELSE x + PodSpeed
    ELSE x

\* animate: positions[i] -= 2; if (positions[i] < -10) positions[i] = 200
RainStep(r) ==
    [i \in 1..Len(r) |-> IF r[i] - 200 < -1000 THEN 20000 ELSE r[i] - 200]

\* the six particles pushed by an explosion at pos
ExplosionParticles(pos, draw) ==
    [i \in 1..ParticlesPerExplosion |->
        [life |-> ParticleLife, position |-> VecAdd(pos, draw[i].jitter),
         velocity |-> draw[i].velocity]]

DroneStepTimerStuck(d) ==
    IF ~d.isActive
    THEN LET t == d.respawnTimer IN
         IF t <= 0
         THEN { [drone |-> [isActive |-> TRUE, respawnTimer |-> t, visible |-> TRUE,
                            position |-> s.position, velocity |-> s.velocity],
                 lasers |-> 0, explosions |-> 0, particles |-> <<>>] : s \in SpawnChoices }
         ELSE { [drone |-> [d EXCEPT !.respawnTimer = t, !.visible = FALSE],
                 lasers |-> 0, explosions |-> 0, particles |-> <<>>] }
    ELSE UNION { LET moved == VecAdd(d.position, d.velocity)
                     p1 == [moved EXCEPT !.y = moved.y + w]
                     d1 == IF p1.y > 6000 \/ p1.z > 2000
                           THEN [d EXCEPT !.position = p1, !.isActive = FALSE,
                                          !.respawnTimer = OutOfBoundsTimer]
                           ELSE [d EXCEPT !.position = p1]
                 IN  { [drone |-> d1, lasers |-> 0, explosions |-> 0, particles |-> <<>>] }
                     \cup
                     { [drone |-> d1, lasers |-> 1, explosions |-> 0, particles |-> <<>>] }
                     \cup
                     { [drone |-> [d1 EXCEPT !.isActive = FALSE, !.respawnTimer = t],
                        lasers |-> 1, explosions |-> 1,
                        particles |-> ExplosionParticles(p1, draw)] :
                          t \in ExplodeTimerChoices, draw \in ParticleDraws }
               : w \in WobbleChoices }

\* animate: the body of dronesRef.current.forEach for one drone; every outcome the
\* random draws and the distance to the gunship allow
DroneStep(d) ==
    IF ~d.isActive
    THEN LET t == d.respawnTimer - 1 IN
         IF t <= 0
         THEN { [drone |-> [isActive |-> TRUE, respawnTimer |-> t, visible |-> TRUE,
                            position |-> s.position, velocity |-> s.velocity],
                 lasers |-> 0, explosions |-> 0, particles |-> <<>>] : s \in SpawnChoices }
         ELSE { [drone |-> [d EXCEPT !.respawnTimer = t, !.visible = FALSE],
                 lasers |-> 0, explosions |-> 0, particles |-> <<>>] }
    ELSE UNION { LET moved == VecAdd(d.position, d.velocity)
                     p1 == [moved EXCEPT !.y = moved.y + w]
                     d1 == IF p1.y > 6000 \/ p1.z > 2000
                           THEN [d EXCEPT !.position = p1, !.isActive = FALSE,
                                          !.respawnTimer = OutOfBoundsTimer]
                           ELSE [d EXCEPT !.position = p1]
                 IN  \* dist < 80 && Math.random() > 0.90 fails
                     { [drone |-> d1, lasers |-> 0, explosions |-> 0, particles |-> <<>>] }
                     \cup  \* a laser, Math.random() > 0.6 fails
                     { [drone |-> d1, lasers |-> 1, explosions |-> 0, particles |-> <<>>] }
                     \cup  \* a laser and an explosion
                     { [drone |-> [d1 EXCEPT !.isActive = FALSE, !.respawnTimer = t],
                        lasers |-> 1, explosions |-> 1,
                        particles |-> ExplosionParticles(p1, draw)] :
                          t \in ExplodeTimerChoices, draw \in ParticleDraws }
               : w \in WobbleChoices }

\* animate: dronesRef.current.forEach over the drones 1..i
RECURSIVE DronesForEach(_, _)
DronesForEach(ds, i) ==
    IF i = 0
    THEN { [drones |-> <<>>, lasers |-> 0, explosions |-> 0, particles |-> <<>>] }
    ELSE { [drones |-> Append(r.drones, o.drone), lasers |-> r.lasers + o.lasers,
            explosions |-> r.explosions + o.explosions,
            particles |-> r.particles \o o.particles] :
              r \in DronesForEach(ds, i - 1), o \in DroneStep(ds[i]) }

\* animate: the particle loop
ParticleStep(p) ==
    LET v == [p.velocity EXCEPT !.y = p.velocity.y - 1]
    IN [life |-> p.life - 1, velocity |-> v, position |-> VecAdd(p.position, v)]

ParticleGone(p) == p.life <= 0 \/ p.position.y < -1000

ParticlesUpdate(ps) ==
    LET stepped == [i \in 1..Len(ps) |-> ParticleStep(ps[i])]
        Keep(p) == ~ParticleGone(p)
    IN SelectSeq(stepped, Keep)

\* animate: one invocation on the scene state m with isPausedRef.current = paused
MetroFrame(m, paused) ==
    IF ~paused
    THEN { [trainX |-> TrainStep(m.trainX, paused), podX |-> PodStep(m.podX, paused),
            rain |-> RainStep(m.rain), drones |-> r.drones,
            particles |-> ParticlesUpdate(m.particles \o r.particles),
            obs |-> [kind |-> "running", lasers |-> r.lasers,
                     explosions |-> r.explosions]] :
              r \in DronesForEach(m.drones, Len(m.drones)) }
    ELSE { [trainX |-> TrainStep(m.trainX, paused), podX |-> PodStep(m.podX, paused),
            rain |-> m.rain, drones |-> m.drones, particles |-> m.particles,
            obs |-> [kind |-> "paused", lasers |-> 0, explosions |-> 0]] }

NoFrame == [kind |-> "none", lasers |-> 0, explosions |-> 0]

CameraStepNeverReenables(mode, enabled) == IF mode = "CHASE" THEN FALSE ELSE enabled

\* animate: the chase camera disables the orbit controls, the orbit camera enables them
\* (trainRef, cameraRef and controlsRef are set by the effect before its first frame)
CameraStep(mode, enabled) == IF mode = "CHASE" THEN FALSE ELSE TRUE

\* the scene effect of MetropolisScene, to the end of its first animate() call
RunEffectMetropolis ==
    /\ page = "Metropolis"
    /\ ~effectLive
    /\ runs < MaxRuns
    /\ frames < MaxFrames
    /\ \E ts \in InitialTimerDraws,
          r0 \in [1..RainDrops -> RainYChoices] :
          LET m0 == [trainX |-> 0, podX |-> 4000, rain |-> r0,
                     drones |-> drones \o [i \in 1..DroneCount |-> NewDrone(ts[i])],
                     particles |-> particles]
          IN \E f \in MetroFrame(m0, isPausedRef) :
                /\ trainX' = f.trainX
                /\ podX' = f.podX
                /\ rain' = f.rain
                /\ drones' = f.drones
                /\ particles' = f.particles
                /\ lastFrame' = f.obs
    /\ animationId' = FreshFrame(0)
    /\ rafPending' = rafPending \cup {animationId'}
    /\ controlsEnabled' = CameraStep(cameraModeRef, TRUE)
    /\ effectLive' = TRUE
    /\ runs' = runs + 1
    /\ frames' = frames + 1
    /\ UNCHANGED <<page, requestRef, isPaused, shownIsPaused, isPausedRef, pauseClicks,
                   cameraMode, shownCameraMode, cameraModeRef>>
    /\ UNCHANGED <<partVars, audioVars, skyVars, gafferVars>>

AnimateMetropolisKeepsFirstId ==
    /\ page = "Metropolis"
    /\ frames < MaxFrames
    /\ \E id \in rafPending :
          /\ animationId' = animationId
          /\ rafPending' = (rafPending \ {id}) \cup {FreshFrame(animationId)}
    /\ \E f \in MetroFrame([trainX |-> trainX, podX |-> podX, rain |-> rain,
                            drones |-> drones, particles |-> particles], isPausedRef) :
          /\ trainX' = f.trainX
          /\ podX' = f.podX
          /\ rain' = f.rain
          /\ drones' = f.drones
          /\ particles' = f.particles
          /\ lastFrame' = f.obs
    /\ controlsEnabled' = CameraStep(cameraModeRef, controlsEnabled)
    /\ frames' = frames + 1
    /\ UNCHANGED <<page, effectLive, runs, requestRef, isPaused, shownIsPaused,
                   isPausedRef, pauseClicks, cameraMode, shownCameraMode, cameraModeRef>>
    /\ UNCHANGED <<partVars, audioVars, skyVars, gafferVars>>

\* the browser runs a pending frame request of MetropolisScene: animate
AnimateMetropolis ==
    /\ page = "Metropolis"
    /\ frames < MaxFrames
    /\ \E id \in rafPending :
          /\ animationId' = FreshFrame(animationId)
          /\ rafPending' = (rafPending \ {id}) \cup {animationId'}
    /\ \E f \in MetroFrame([trainX |-> trainX, podX |-> podX, rain |-> rain,
                            drones |-> drones, particles |-> particles], isPausedRef) :
          /\ trainX' = f.trainX
          /\ podX' = f.podX
          /\ rain' = f.rain
          /\ drones' = f.drones
          /\ particles' = f.particles
          /\ lastFrame' = f.obs
    /\ controlsEnabled' = CameraStep(cameraModeRef, controlsEnabled)
    /\ frames' = frames + 1
    /\ UNCHANGED <<page, effectLive, runs, requestRef, isPaused, shownIsPaused,
                   isPausedRef, pauseClicks, cameraMode, shownCameraMode, cameraModeRef>>
    /\ UNCHANGED <<partVars, audioVars, skyVars, gafferVars>>

\* cleanup of the scene effect of MetropolisScene
CleanupMetropolis ==
    /\ page = "Metropolis"
    /\ effectLive
    /\ rafPending' = rafPending \ {animationId}
    /\ effectLive' = FALSE
    /\ lastFrame' = NoFrame
    /\ UNCHANGED <<page, runs, animationId, requestRef, frames, isPaused, shownIsPaused,
                   isPausedRef, pauseClicks, trainX, podX, rain, drones, particles,
                   cameraMode, shownCameraMode, cameraModeRef, controlsEnabled>>
    /\ UNCHANGED <<partVars, audioVars, skyVars, gafferVars>>

\* togglePause: nextState = !isPaused of the render the handler closes over
TogglePause ==
    /\ page = "Metropolis"
    /\ effectLive
    /\ pauseClicks < MaxClicks
    /\ isPaused' = ~shownIsPaused
    /\ isPausedRef' = ~shownIsPaused
    /\ pauseClicks' = pauseClicks + 1
    /\ lastFrame' = NoFrame
    /\ UNCHANGED <<shownIsPaused, trainX, podX, rain, drones, particles, cameraMode,
                   shownCameraMode, cameraModeRef, controlsEnabled>>
    /\ UNCHANGED <<partVars, audioVars, lifeVars, skyVars, gafferVars>>

\* toggleCamera: nextMode from the cameraMode of the render the handler closes over
ToggleCamera ==
    /\ page = "Metropolis"
    /\ effectLive
    /\ LET nextMode == IF shownCameraMode = "ORBIT" THEN "CHASE" ELSE "ORBIT"
       IN /\ cameraMode' = nextMode
          /\ cameraModeRef' = nextMode
    /\ lastFrame' = NoFrame
    /\ UNCHANGED <<isPaused, shownIsPaused, isPausedRef, pauseClicks, trainX, podX, rain,
                   drones, particles, shownCameraMode, controlsEnabled>>
    /\ UNCHANGED <<partVars, audioVars, lifeVars, skyVars, gafferVars>>

\* React re-renders MetropolisScene with the new isPaused and cameraMode
RenderPause ==
    /\ page = "Metropolis"
    /\ effectLive
    /\ shownIsPaused # isPaused \/ shownCameraMode # cameraMode
    /\ shownIsPaused' = isPaused
    /\ shownCameraMode' = cameraMode
    /\ lastFrame' = NoFrame
    /\ UNCHANGED <<isPaused, isPausedRef, pauseClicks, trainX, podX, rain, drones,
                   particles, cameraMode, cameraModeRef, controlsEnabled>>
    /\ UNCHANGED <<partVars, audioVars, lifeVars, skyVars, gafferVars>>

InitMetropolis ==
    /\ isPaused = FALSE
    /\ shownIsPaused = FALSE
    /\ isPausedRef = FALSE
    /\ pauseClicks = 0
    /\ trainX = 0
    /\ podX = 0
    /\ rain = <<>>
    /\ drones = <<>>
    /\ particles = <<>>
    /\ lastFrame = NoFrame
    /\ cameraMode = "ORBIT"
    /\ shownCameraMode = "ORBIT"
    /\ cameraModeRef = "ORBIT"
    /\ controlsEnabled = TRUE

InitLife ==
    /\ effectLive = FALSE
    /\ runs = 0
    /\ rafPending = {}
    /\ animationId = 0
    /\ requestRef = 0
    /\ frames = 0

-----------------------------------------------------------------------------
(* SkyPodScene *)

(* Bound *)
MaxSwitches == 2      \* changes of the isNightVision prop

(* Bounds *)
MaxSkyFrames == 22    \* animate invocations of SkyPodScene
MaxStrays == 1        \* frames in which the gun holds fire or a bullet misses the boat

(* Program constants *)
MaxHealth == 100
BulletDamage == 5
BulletLife == 60
BoatSpeed == 15
BoatEnd == 15000
DebrisLife == 30
SplashLife == 15

\* scene.add(new Mesh(...)): an object no mesh of the scene is
FreshMesh(meshes) ==
    CHOOSE i \in 1..(Cardinality(meshes) + 1) :
        /\ i \notin meshes
        /\ \A j \in 1..(Cardinality(meshes) + 1) : j \notin meshes => i <= j

\* the scene and lighting set-up of the scene effect (colours as numbers)
InitialLighting ==
    [background |-> 4891615, fogColor |-> 4891615, fogNear |-> 60, fogFar |-> 250,
     ambientIntensity |-> 6, ambientColor |-> 16777215,
     dirIntensity |-> 12, dirColor |-> 16775917, dirPosition |-> <<50, 80, 30>>]

NoLighting ==
    [background |-> 0, fogColor |-> 0, fogNear |-> 0, fogFar |-> 0,
     ambientIntensity |-> 0, ambientColor |-> 0,
     dirIntensity |-> 0, dirColor |-> 0, dirPosition |-> <<0, 0, 0>>]

NightVisionEffectKeepsMoon(night, l) ==
    IF night
    THEN [background |-> 334341, fogColor |-> 334341, fogNear |-> 10, fogFar |-> 150,
          ambientIntensity |-> 2, ambientColor |-> 13434828,
          dirIntensity |-> 4, dirColor |-> 8978312, dirPosition |-> <<-20, 40, -20>>]
    ELSE [l EXCEPT !.background = 4891615, !.fogColor = 4891615, !.fogNear = 60,
                   !.fogFar = 250, !.ambientIntensity = 6, !.ambientColor = 16777215,
                   !.dirIntensity = 12, !.dirColor = 16775917]

\* the night-vision effect on the scene sceneRef holds (intensities in tenths)
NightVisionEffect(night, l) ==
    IF night
    THEN [l EXCEPT !.background = 334341, !.fogColor = 334341, !.fogNear = 10,
                   !.fogFar = 150, !.ambientIntensity = 2, !.ambientColor = 13434828,
                   !.dirIntensity = 4, !.dirColor = 8978312,
                   !.dirPosition = <<-20, 40, -20>>]
    ELSE [l EXCEPT !.background = 4891615, !.fogColor = 4891615, !.fogNear = 60,
                   !.fogFar = 250, !.ambientIntensity = 6, !.ambientColor = 16777215,
                   !.dirIntensity = 12, !.dirColor = 16775917,
                   !.dirPosition = <<50, 80, 30>>]

\* const boatState = { x: -150, z: 20, speed: 0.15, health: 100, isSinking: false, sinkTimer: 0 }
InitialBoat == [x |-> 0 - BoatEnd, health |-> MaxHealth, isSinking |-> FALSE, sinkTimer |-> 0]

BoatStepKeepsSinking(b) ==
    IF ~b.isSinking
    THEN LET x1 == b.x + BoatSpeed
             wrapped == x1 > BoatEnd
             x2 == IF wrapped THEN 0 - BoatEnd ELSE x1
             h2 == IF wrapped THEN MaxHealth ELSE b.health
         IN IF h2 <= 0
            THEN [x |-> x2, health |-> h2, isSinking |-> TRUE, sinkTimer |-> 0]
            ELSE [b EXCEPT !.x = x2, !.health = h2]
    ELSE LET t == b.sinkTimer + 2
         IN [b EXCEPT !.sinkTimer = IF t > 300 THEN 300 ELSE t]

\* animate: the boat update (sinkTimer in 1/100)
BoatStep(b) ==
    IF ~b.isSinking
    THEN LET x1 == b.x + BoatSpeed
             wrapped == x1 > BoatEnd
             x2 == IF wrapped THEN 0 - BoatEnd ELSE x1
             h2 == IF wrapped THEN MaxHealth ELSE b.health
         IN IF h2 <= 0
            THEN [x |-> x2, health |-> h2, isSinking |-> TRUE, sinkTimer |-> 0]
            ELSE [b EXCEPT !.x = x2, !.health = h2]
    ELSE LET t == b.sinkTimer + 2
         IN IF t > 300
            THEN [x |-> 0 - BoatEnd, health |-> MaxHealth, isSinking |-> FALSE,
                  sinkTimer |-> t]
            ELSE [b EXCEPT !.sinkTimer = t]

\* spawnBullet
SpawnBullet(s) ==
    LET m == FreshMesh(s.meshes)
    IN [s EXCEPT !.bullets = Append(s.bullets, [mesh |-> m, life |-> BulletLife]),
                 !.meshes = s.meshes \cup {m}]

\* spawnParticle
SpawnParticle(s, life) ==
    LET m == FreshMesh(s.meshes)
    IN [s EXCEPT !.particles = Append(s.particles, [mesh |-> m, life |-> life]),
                 !.meshes = s.meshes \cup {m}]

SpliceNothing(q, i) == q

\* bullets.splice(i, 1)
Splice(q, i) == SubSeq(q, 1, i - 1) \o SubSeq(q, i + 1, Len(q))

\* where the bullet is after its move: in the hit box of the boat, below the river
\* level, or neither
BulletPlaces == {"box", "below", "air"}

\* animate: the body of the bullet loop for bullets[i]
BulletStep(s, i, place) ==
    LET b == [s.bullets[i] EXCEPT !.life = s.bullets[i].life - 1]
        s1 == [s EXCEPT !.bullets[i] = b]
        removed == [s1 EXCEPT !.bullets = Splice(s1.bullets, i),
                              !.meshes = s1.meshes \ {b.mesh}]
    IN IF ~s.boat.isSinking /\ place = "box"
       THEN LET d == SpawnParticle(s1, DebrisLife)
            IN [d EXCEPT !.boat.health = d.boat.health - BulletDamage,
                         !.bullets = Splice(d.bullets, i),
                         !.meshes = d.meshes \ {b.mesh}]
       ELSE IF place = "below"
       THEN LET d == SpawnParticle(s1, SplashLife)
            IN [d EXCEPT !.bullets = Splice(d.bullets, i), !.meshes = d.meshes \ {b.mesh}]
       ELSE IF b.life <= 0 THEN removed ELSE s1

\* animate: for (let i = bullets.length - 1; i >= 0; i--), from bullets[i] down
RECURSIVE BulletsLoop(_, _)
BulletsLoop(s, i) ==
    IF i = 0 THEN {s}
    ELSE UNION { BulletsLoop([BulletStep(s, i, place) EXCEPT
                                 !.strayed = @ \/ place # "box"], i - 1) :
                 place \in BulletPlaces }

\* animate: the particle loop
SkyParticlesLoop(s) ==
    LET aged == [i \in 1..Len(s.particles) |->
                    [s.particles[i] EXCEPT !.life = s.particles[i].life - 1]]
        Alive(p) == p.life > 0
        dead == { aged[i].mesh : i \in { k \in 1..Len(aged) : aged[k].life <= 0 } }
    IN [s EXCEPT !.particles = SelectSeq(aged, Alive), !.meshes = s.meshes \ dead]

\* animate: one invocation; inRange: the boat is less than 100 from the pod,
\* fireReady: time - lastFireTime > 0.08
SkyFrame(s, inRange, fireReady) ==
    LET s1 == [s EXCEPT !.boat = BoatStep(s.boat)]
        target == ~s1.boat.isSinking /\ inRange
        s2 == IF target /\ fireReady THEN SpawnBullet(s1) ELSE s1
    IN { SkyParticlesLoop(r) : r \in BulletsLoop(s2, Len(s2.bullets)) }

SkyAssign(f) ==
    /\ boatState' = f.boat
    /\ bullets' = f.bullets
    /\ skyParticles' = f.particles
    /\ skyMeshes' = f.meshes

\* mount of SkyPodScene: the scene effect to the end of its first animate() call (the
\* clock has just started: time - lastFireTime is not above 0.08), then the
\* night-vision effect
RunEffectSkyPod ==
    /\ page = "SkyPod"
    /\ ~effectLive
    /\ runs < MaxRuns
    /\ frames < MaxSkyFrames
    /\ sceneRef' = runs + 1
    /\ lighting' = NightVisionEffect(isNightVision, InitialLighting)
    /\ \E inRange \in BOOLEAN :
          \E f \in SkyFrame([boat |-> InitialBoat, bullets |-> <<>>, particles |-> <<>>,
                             meshes |-> {}, strayed |-> FALSE], inRange, FALSE) :
             SkyAssign(f)
    /\ requestRef' = FreshFrame(requestRef)
    /\ rafPending' = rafPending \cup {requestRef'}
    /\ effectLive' = TRUE
    /\ runs' = runs + 1
    /\ frames' = frames + 1
    /\ UNCHANGED <<page, animationId, isNightVision, nightSwitches, strays>>
    /\ UNCHANGED <<partVars, audioVars, metroVars, gafferVars>>

\* the browser runs a pending frame request of SkyPodScene: animate
AnimateSkyPod ==
    /\ page = "SkyPod"
    /\ frames < MaxSkyFrames
    /\ \E id \in rafPending :
          /\ requestRef' = FreshFrame(requestRef)
          /\ rafPending' = (rafPending \ {id}) \cup {requestRef'}
    /\ \E inRange \in BOOLEAN, fireReady \in BOOLEAN :
          \E f \in SkyFrame([boat |-> boatState, bullets |-> bullets,
                             particles |-> skyParticles, meshes |-> skyMeshes,
                             strayed |-> ~(inRange /\ fireReady)],
                            inRange, fireReady) :
             /\ SkyAssign(f)
             /\ strays' = IF f.strayed THEN strays + 1 ELSE strays
             /\ strays' <= MaxStrays
    /\ frames' = frames + 1
    /\ UNCHANGED <<page, effectLive, runs, animationId, isNightVision, nightSwitches,
                   sceneRef, lighting>>
    /\ UNCHANGED <<partVars, audioVars, metroVars, gafferVars>>

\* cleanup of the scene effect of SkyPodScene
CleanupSkyPod ==
    /\ page = "SkyPod"
    /\ effectLive
    /\ rafPending' = IF requestRef # 0 THEN rafPending \ {requestRef} ELSE rafPending
    /\ skyMeshes' = (skyMeshes \ { bullets[i].mesh : i \in 1..Len(bullets) })
                        \ { skyParticles[i].mesh : i \in 1..Len(skyParticles) }
    /\ effectLive' = FALSE
    /\ UNCHANGED <<page, runs, animationId, requestRef, frames, isNightVision,
                   nightSwitches, sceneRef, lighting, boatState, bullets, skyParticles,
                   strays>>
    /\ UNCHANGED <<partVars, audioVars, metroVars, gafferVars>>

\* the parent changes the isNightVision prop: the night-vision effect runs
SetNightVision ==
    /\ page = "SkyPod"
    /\ effectLive
    /\ nightSwitches < MaxSwitches
    /\ isNightVision' = ~isNightVision
    /\ nightSwitches' = nightSwitches + 1
    /\ lighting' = IF sceneRef # 0 THEN NightVisionEffect(isNightVision', lighting)
                   ELSE lighting
    /\ UNCHANGED <<sceneRef, boatState, bullets, skyParticles, skyMeshes, strays>>
    /\ UNCHANGED <<partVars, audioVars, lifeVars, metroVars, gafferVars>>

InitSkyPod ==
    /\ nightSwitches = 0
    /\ sceneRef = 0
    /\ lighting = NoLighting
    /\ boatState = InitialBoat
    /\ bullets = <<>>
    /\ skyParticles = <<>>
    /\ skyMeshes = {}
    /\ strays = 0

-----------------------------------------------------------------------------
(* GafferScene *)

(* Bounds *)
MaxOpens == 2         \* window.open calls

(* Program constant *)
ClickThreshold == 5

\* the pointer positions of the model, in pixels: 3-4-5 apart at the threshold
CoordChoices == {0, 3, 4}
Coords == CoordChoices \X CoordChoices

\* onPointerUp: distance = Math.sqrt(diffX * diffX + diffY * diffY); distance < 5
\* (the square root of a sum of squares is below 5 exactly when the sum is below 25)
IsClick(up, down) ==
    LET diffX == IF up[1] >= down[1] THEN up[1] - down[1] ELSE down[1] - up[1]
        diffY == IF up[2] >= down[2] THEN up[2] - down[2] ELSE down[2] - up[2]
    IN diffX * diffX + diffY * diffY < ClickThreshold * ClickThreshold

NoEvent == [type |-> "none", pos |-> <<0, 0>>, hit |-> FALSE]

\* the scene effect of GafferScene, to the end of its first animate() call
RunEffectGaffer ==
    /\ page = "Gaffer"
    /\ ~effectLive
    /\ runs < MaxRuns
    /\ startPos' = <<0, 0>>
    /\ hasDown' = FALSE
    /\ lastEvent' = NoEvent
    /\ requestRef' = FreshFrame(requestRef)
    /\ rafPending' = rafPending \cup {requestRef'}
    /\ effectLive' = TRUE
    /\ runs' = runs + 1
    /\ UNCHANGED <<page, animationId, frames, opened, cursor>>
    /\ UNCHANGED <<partVars, audioVars, metroVars, skyVars>>

AnimateGafferRequestsTwice ==
    /\ page = "Gaffer"
    /\ \E id \in rafPending :
          /\ requestRef' = FreshFrame(requestRef)
          /\ rafPending' = (rafPending \ {id}) \cup {requestRef', FreshFrame(requestRef')}
    /\ lastEvent' = NoEvent
    /\ UNCHANGED <<page, effectLive, runs, animationId, frames, startPos, hasDown, opened,
                   cursor>>
    /\ UNCHANGED <<partVars, audioVars, metroVars, skyVars>>

\* the browser runs a pending frame request of GafferScene: animate
AnimateGaffer ==
    /\ page = "Gaffer"
    /\ \E id \in rafPending :
          /\ requestRef' = FreshFrame(requestRef)
          /\ rafPending' = (rafPending \ {id}) \cup {requestRef'}
    /\ lastEvent' = NoEvent
    /\ UNCHANGED <<page, effectLive, runs, animationId, frames, startPos, hasDown, opened,
                   cursor>>
    /\ UNCHANGED <<partVars, audioVars, metroVars, skyVars>>

\* cleanup of the scene effect of GafferScene: the listeners are removed
CleanupGaffer ==
    /\ page = "Gaffer"
    /\ effectLive
    /\ rafPending' = IF requestRef # 0 THEN rafPending \ {requestRef} ELSE rafPending
    /\ effectLive' = FALSE
    /\ lastEvent' = NoEvent
    /\ UNCHANGED <<page, runs, animationId, requestRef, frames, startPos, hasDown, opened,
                   cursor>>
    /\ UNCHANGED <<partVars, audioVars, metroVars, skyVars>>

\* onPointerDown
PointerDown ==
    /\ page = "Gaffer"
    /\ effectLive
    /\ \E pos \in Coords :
          /\ startPos' = pos
          /\ lastEvent' = [type |-> "pointerdown", pos |-> pos, hit |-> FALSE]
    /\ hasDown' = TRUE
    /\ UNCHANGED <<opened, cursor>>
    /\ UNCHANGED <<partVars, audioVars, lifeVars, metroVars, skyVars>>

\* onPointerUp; hit: the pick ray meets a voxel or the black circle
PointerUp ==
    /\ page = "Gaffer"
    /\ effectLive
    /\ \E pos \in Coords, hit \in BOOLEAN :
          /\ lastEvent' = [type |-> "pointerup", pos |-> pos, hit |-> hit]
          /\ IF IsClick(pos, startPos) /\ hit
             THEN opened < MaxOpens /\ opened' = opened + 1
             ELSE opened' = opened
    /\ UNCHANGED <<startPos, hasDown, cursor>>
    /\ UNCHANGED <<partVars, audioVars, lifeVars, metroVars, skyVars>>

\* onPointerMove
PointerMove ==
    /\ page = "Gaffer"
    /\ effectLive
    /\ \E pos \in Coords, hit \in BOOLEAN :
          /\ lastEvent' = [type |-> "pointermove", pos |-> pos, hit |-> hit]
          /\ cursor' = IF hit THEN "pointer" ELSE "default"
    /\ UNCHANGED <<startPos, hasDown, opened>>
    /\ UNCHANGED <<partVars, audioVars, lifeVars, metroVars, skyVars>>

InitGaffer ==
    /\ startPos = <<0, 0>>
    /\ hasDown = FALSE
    /\ opened = 0
    /\ cursor = "default"
    /\ lastEvent = NoEvent

-----------------------------------------------------------------------------
(* Specifications *)

\* the scene components share no state: the model follows one of them at a time
NoPartObs == [kind |-> "none"]

\* no single object is followed
InitNoPart ==
    /\ part = "none"
    /\ body = 0
    /\ partObs = NoPartObs

Init ==
    /\ InitAudio
    /\ page \in Scenes
    /\ isNightVision \in BOOLEAN
    /\ InitLife
    /\ InitMetropolis
    /\ InitSkyPod
    /\ InitGaffer
    /\ InitNoPart

Next ==
    \/ RunEffectMetropolis
    \/ AnimateMetropolis
    \/ CleanupMetropolis
    \/ TogglePause
    \/ ToggleCamera
    \/ RenderPause
    \/ RunEffectSkyPod
    \/ AnimateSkyPod
    \/ CleanupSkyPod
    \/ SetNightVision
    \/ RunEffectGaffer
    \/ AnimateGaffer
    \/ CleanupGaffer
    \/ PointerDown
    \/ PointerUp
    \/ PointerMove

Spec == Init /\ [][Next]_vars

\* the audio engine of a mounted MetropolisScene
InitAudioSpec ==
    /\ InitAudio
    /\ page = "Metropolis"
    /\ isNightVision = FALSE
    /\ InitLife
    /\ InitMetropolis
    /\ InitSkyPod
    /\ InitGaffer
    /\ InitNoPart

SpecAudio == InitAudioSpec /\ [][NextAudio]_vars

\* the engine on its own, its methods called in any order
SpecEngine == InitAudioSpec /\ [][NextEngine]_vars

-----------------------------------------------------------------------------
(* The animated objects one at a time.  Within a frame each object is updated from its
   own fields, the random draws and the scene geometry only, so the update of one object
   over any number of unpaused frames is followed here without the others. *)

(* Program constant *)
TrackLength == 50000

(* Bounds *)
MaxInFlight == 2      \* bullets in flight at the start of a frame
MaxFireFrames == 8    \* frames of a crossing, from its start, with bullets in the air

Parts == {"train", "pod", "drone", "bullets", "boat", "note"}

\* Math.random() * 100 of one drone
TimerDraws == UNION { { ts[i] : i \in 1..DroneCount } : ts \in InitialTimerDraws }

\* the object as the scene effect creates it
InitialBody(p) ==
    CASE p = "train" -> {0}
      [] p = "pod" -> {4000}
      [] p = "drone" -> { NewDrone(t) : t \in TimerDraws }
      [] p = "bullets" -> { <<>> }
      [] p = "boat" -> { InitialBoat }
      [] p = "note" -> { 0 }

\* animate, unpaused: trainX
TrainFrame ==
    /\ part = "train"
    /\ body' = TrainStep(body, FALSE)
    /\ partObs' = [kind |-> "train"]
    /\ UNCHANGED <<part, audioVars, lifeVars, metroVars, skyVars, gafferVars>>

\* animate, unpaused: podX
PodFrame ==
    /\ part = "pod"
    /\ body' = PodStep(body, FALSE)
    /\ partObs' = [kind |-> "pod"]
    /\ UNCHANGED <<part, audioVars, lifeVars, metroVars, skyVars, gafferVars>>

\* animate, unpaused: one drone of dronesRef in the forEach
DroneFrame ==
    /\ part = "drone"
    /\ \E o \in DroneStep(body) :
          /\ body' = o.drone
          /\ partObs' = [kind |-> "drone", lasers |-> o.lasers,
                         explosions |-> o.explosions, particles |-> Len(o.particles)]
    /\ UNCHANGED <<part, audioVars, lifeVars, metroVars, skyVars, gafferVars>>

\* the meshes of a list of bullets or particles
MeshesOf(q) == { q[i].mesh : i \in 1..Len(q) }

\* a boat the bullets of the frame fly at: afloat, or sinking for the whole frame
BoatAfloat == InitialBoat
BoatSinking == [InitialBoat EXCEPT !.health = 0, !.isSinking = TRUE]

\* animate of SkyPodScene: the firing and the bullet loop on the bullets array
BulletsFrame ==
    /\ part = "bullets"
    /\ \E inRange \in BOOLEAN, fireReady \in BOOLEAN, boat \in {BoatAfloat, BoatSinking} :
          /\ Len(body) < MaxInFlight \/ ~(inRange /\ fireReady)
          /\ \E f \in SkyFrame([boat |-> boat, bullets |-> body, particles |-> <<>>,
                                 meshes |-> MeshesOf(body), strayed |-> FALSE],
                                inRange, fireReady) :
                /\ body' = f.bullets
                /\ partObs' =
                      [kind |-> "bullets",
                       left |-> Cardinality(MeshesOf(body) \ MeshesOf(f.bullets)),
                       particles |-> Len(f.particles),
                       unseen |-> Cardinality(MeshesOf(f.bullets) \ f.meshes),
                       orphans |-> Cardinality(f.meshes \ (MeshesOf(f.bullets)
                                                           \cup MeshesOf(f.particles)))]
    /\ UNCHANGED <<part, audioVars, lifeVars, metroVars, skyVars, gafferVars>>

\* the bullets in flight when a frame of the boat begins
FlightOf(n) == [i \in 1..n |-> [mesh |-> i, life |-> BulletLife \div 2]]

\* animate of SkyPodScene: the boat update, the firing and the bullet loop on boatState
BoatFrame ==
    /\ part = "boat"
    /\ \E n \in 0..MaxInFlight, inRange \in BOOLEAN, fireReady \in BOOLEAN :
          /\ \/ n = 0 /\ ~(inRange /\ fireReady)
             \/ body.x < (0 - BoatEnd) + MaxFireFrames * BoatSpeed
          /\ \E f \in SkyFrame([boat |-> body, bullets |-> FlightOf(n), particles |-> <<>>,
                                 meshes |-> 1..n, strayed |-> FALSE], inRange, fireReady) :
                /\ body' = f.boat
                /\ partObs' =
                      [kind |-> "boat", inFlight |-> n,
                       objects |-> Len(f.bullets) + Len(f.particles),
                       debris |-> Len(SelectSeq(f.particles,
                                                LAMBDA q : q.life = DebrisLife - 1))]
    /\ UNCHANGED <<part, audioVars, lifeVars, metroVars, skyVars, gafferVars>>

\* scheduler(): scheduleNote(currentNote, nextNoteTime) and nextNote() on the beat counter
NoteStep ==
    /\ part = "note"
    /\ \E arpDraw \in ArpDraws, idxDraw \in IdxDraws, panDraw \in PanDraws :
          LET n == ScheduleNoteSources(body, arpDraw, idxDraw, panDraw)
              first == body = 0 \/ partObs.kind = "none"
          IN partObs' =
                [kind |-> "note", beat |-> body, bass |-> n.bass, arp |-> n.arp,
                 arpFreq |-> n.arpFreq, pan |-> n.pan, hihat |-> n.hihat,
                 bassCount |-> (IF first THEN 0 ELSE partObs.bassCount)
                                 + (IF n.bass # 0 THEN 1 ELSE 0),
                 hihatCount |-> (IF first THEN 0 ELSE partObs.hihatCount)
                                  + (IF n.hihat THEN 1 ELSE 0)]
    /\ body' = NextNote(body)
    /\ UNCHANGED <<part, audioVars, lifeVars, metroVars, skyVars, gafferVars>>

\* one of the objects `ps` as the scene effect created it
InitParts(ps) ==
    /\ InitAudio
    /\ page = "Metropolis"
    /\ isNightVision = FALSE
    /\ InitLife
    /\ InitMetropolis
    /\ InitSkyPod
    /\ InitGaffer
    /\ part \in ps
    /\ body \in InitialBody(part)
    /\ partObs = NoPartObs

\* The browser keeps running the frame requests of a mounted scene, and the timer keeps
\* running the scheduler of a playing engine: the fair specifications.

NextTrack == TrainFrame \/ PodFrame
SpecTrack == InitParts({"train", "pod"}) /\ [][NextTrack]_vars /\ WF_vars(NextTrack)

SpecDrone == InitParts({"drone"}) /\ [][DroneFrame]_vars
SpecDroneFair == SpecDrone /\ WF_vars(DroneFrame)

SpecBullets == InitParts({"bullets"}) /\ [][BulletsFrame]_vars

SpecBoat == InitParts({"boat"}) /\ [][BoatFrame]_vars /\ WF_vars(BoatFrame)

SpecNotes == InitParts({"note"}) /\ [][NoteStep]_vars

-----------------------------------------------------------------------------
(* Claims checked under SpecAudio *)

\* C1: every scheduleNote call of a scheduler() run passes a time strictly below
\* currentTime + scheduleAheadTime as read at the loop test, and when the loop is left
\* nextNoteTime >= currentTime + scheduleAheadTime.
C1_ScheduleWindow ==
    lastSched.ran =>
        /\ \A i \in 1..Len(lastSched.calls) :
              lastSched.calls[i].time < lastSched.calls[i].now + ScheduleAheadTime
        /\ lastSched.exitNext >= lastSched.exitNow + ScheduleAheadTime
        /\ nextNoteTime = lastSched.exitNext
        /\ currentTime = lastSched.exitNow

\* a late scheduler() run that scheduled several notes before it left its loop
C1_Witness ==
    /\ lastSched.ran
    /\ Len(lastSched.calls) >= 2
    /\ lastSched.exitNext < lastSched.exitNow + ScheduleAheadTime + SixteenthMs

\* C2: currentNote is in 0..15 in every reachable state, and each nextNote call takes it
\* from n to (n + 1) mod 16: the beats passed to consecutive scheduleNote calls of a run
\* follow each other modulo 16 and the counter ends one past the last beat.
C2_BeatCounter ==
    /\ currentNote \in 0..(PatternLength - 1)
    /\ lastSched.ran =>
          LET c == lastSched.calls IN
          /\ \A i \in 1..Len(c) : c[i].beat \in 0..(PatternLength - 1)
          /\ \A i \in 1..(Len(c) - 1) : c[i + 1].beat = (c[i].beat + 1) % PatternLength
          /\ c # <<>> => currentNote = (c[Len(c)].beat + 1) % PatternLength

\* a run whose last nextNote call wrapped the counter from 15 to 0
C2_Witness ==
    /\ lastSched.ran
    /\ lastSched.calls # <<>>
    /\ lastSched.calls[Len(lastSched.calls)].beat = PatternLength - 1
    /\ currentNote = 0

\* C4: after MetropolisScene unmounts the engine has isPlaying = false, no scheduler
\* timeout is pending and no further scheduleNote call occurs.
C4_SilentAfterUnmount ==
    ~audioMounted =>
        /\ isPlaying = FALSE
        /\ timers = {}
        /\ lastSched.calls = <<>>

\* C8: while MetropolisScene is mounted, and so after every toggleAudio call that has
\* completed, audioEnabled equals the engine's isPlaying, and an enabled engine has been
\* initialised.
C8_ToggleMatchesEngine ==
    audioMounted =>
        /\ audioEnabled = isPlaying
        /\ audioEnabled => ctxState # "none"

\* two clicks were awaiting init() at once, both have resumed, the engine plays
C8_Witness ==
    /\ audioMounted
    /\ pendingToggles = 0
    /\ overlapped
    /\ audioEnabled
    /\ isPlaying

-----------------------------------------------------------------------------
(* Claims checked under Spec *)

\* C3: once the cleanup of a scene effect has run, no animation-frame request of the
\* component is pending, so animate cannot run again: the handle the cleanup cancels
\* is the one request that was pending.
C3_NoFrameAfterCleanup == ~effectLive => rafPending = {}

C3_Witness ==
    /\ page = "Metropolis"
    /\ ~effectLive
    /\ runs >= 1
    /\ frames >= 3
    /\ rafPending = {}

\* C5: after the cleanup of the scene effect no drone or particle record is left in
\* dronesRef / particlesRef, a live effect run holds exactly DroneCount drones, and
\* after the cleanup of SkyPodScene no bullet or particle mesh is left in the scene.
C5_RecordsDiscarded ==
    /\ (page = "Metropolis" /\ runs >= 1 /\ ~effectLive) =>
          (drones = <<>> /\ particles = <<>>)
    /\ (page = "Metropolis" /\ effectLive) => Len(drones) = DroneCount
    /\ (page = "SkyPod" /\ runs >= 1 /\ ~effectLive) => skyMeshes = {}

\* C6: an animate invocation of MetropolisScene that finds isPausedRef.current true
\* leaves the train, the pod, the rain, every drone and every particle as they were,
\* creates no particle and triggers no explosion.  (The invocation that ends a run of
\* the effect follows the set-up of that run: it leaves the set-up's values.)
C6_PausedFrameFreezes ==
    [][(page = "Metropolis" /\ frames' = frames + 1 /\ isPausedRef) =>
          /\ lastFrame'.kind = "paused"
          /\ lastFrame'.explosions = 0
          /\ lastFrame'.lasers = 0
          /\ particles' = particles
          /\ IF effectLive
             THEN /\ trainX' = trainX
                  /\ podX' = podX
                  /\ rain' = rain
                  /\ drones' = drones
             ELSE /\ trainX' = 0
                  /\ podX' = 4000
                  /\ rain' \in [1..RainDrops -> RainYChoices]
                  /\ \E ts \in InitialTimerDraws :
                        drones' = drones \o [i \in 1..DroneCount |-> NewDrone(ts[i])]
      ]_vars

C6_Witness ==
    /\ page = "Metropolis"
    /\ effectLive
    /\ isPausedRef
    /\ lastFrame.kind = "paused"
    /\ trainX > 0
    /\ particles # <<>>
    /\ \E i \in 1..Len(drones) : drones[i].isActive

\* C7: every togglePause click inverts isPausedRef.current (after n clicks it is true
\* exactly when n is odd) and leaves it equal to the isPaused state.
C7_ClicksInvert ==
    page = "Metropolis" =>
        /\ isPausedRef = (pauseClicks % 2 = 1)
        /\ isPausedRef = isPaused

\* C9: a step opens the URL, once, exactly when it is a pointerup less than 5 px from
\* the latest pointerdown on the canvas whose pick ray hits; no other step opens it.
C9_OpensOnClickOnly ==
    [][LET e == lastEvent' IN
          /\ opened' \in {opened, opened + 1}
          /\ (opened' = opened + 1) <=>
                (/\ e.type = "pointerup"
                 /\ hasDown
                 /\ IsClick(e.pos, startPos)
                 /\ e.hit)
      ]_vars

\* C10: the lighting of the SkyPodScene scene is a function of the current
\* isNightVision alone: the night settings when it is true, the settings of the scene
\* set-up when it is false, whatever the earlier values of the prop.
C10_LightingFollowsProp ==
    (page = "SkyPod" /\ sceneRef # 0) =>
        lighting = IF isNightVision
                   THEN [background |-> 334341, fogColor |-> 334341, fogNear |-> 10,
                         fogFar |-> 150, ambientIntensity |-> 2,
                         ambientColor |-> 13434828, dirIntensity |-> 4,
                         dirColor |-> 8978312, dirPosition |-> <<-20, 40, -20>>]
                   ELSE InitialLighting

C10_Witness ==
    /\ page = "SkyPod"
    /\ effectLive
    /\ nightSwitches >= 2
    /\ ~isNightVision
    /\ lighting = InitialLighting

\* C11: no variable written by one logical actor is read or written by another: a
\* togglePause click (the UI click handler) writes nothing the animation-frame callback
\* reads, so what the next animate invocation can do is the same before and after the
\* click.
C11_NoSharedState ==
    [][(page = "Metropolis" /\ pauseClicks' = pauseClicks + 1) =>
          LET m == [trainX |-> trainX, podX |-> podX, rain |-> rain, drones |-> drones,
                    particles |-> particles]
          IN /\ isPausedRef' = isPausedRef
             /\ MetroFrame(m, isPausedRef') = MetroFrame(m, isPausedRef)
      ]_vars

-----------------------------------------------------------------------------
(* Claims checked under SpecEngine *)

\* C12: while the context has not been created, a call of setTrainVolume,
\* triggerExplosion, scheduleNote, scheduler, startDrone, startRainNoise or
\* startTrainRumble returns without throwing and changes no field of the engine.
C12_NullContextCallsReturn ==
    [][(/\ ctxState = "none"
        /\ lastCall'.method \in {"setTrainVolume", "triggerExplosion", "scheduleNote",
                                 "scheduler", "startDrone", "startRainNoise",
                                 "startTrainRumble"}) =>
          /\ ~lastCall'.threw
          /\ engineFields' = engineFields
          /\ ctxOps' = ctxOps
      ]_vars

C12_Witness ==
    /\ ctxState = "none"
    /\ lastCall.method = "startDrone"
    /\ ~lastCall.threw
    /\ graph.droneSets = 0

\* C17: at most one scheduler timeout is pending, it is the one schedulerTimer holds,
\* and one is pending only while isPlaying is true; a start() call on a playing engine
\* leaves the one chain there is.
C17_OneSchedulerChain ==
    /\ Cardinality(timers) <= 1
    /\ timers # {} => (isPlaying /\ timers = {schedulerTimer})

\* start() was called on a playing engine and returned at its isPlaying test
C17_Witness ==
    /\ lastCall.method = "start"
    /\ isPlaying
    /\ ~lastSched.ran
    /\ Cardinality(timers) = 1
    /\ currentTime > 0

\* C18: at most one drone-oscillator set, one rain-noise source and one train-rumble
\* source run in the audio graph, and the rumble source behind trainGain is the only
\* rumble source.
C18_OneAmbientSet ==
    /\ graph.droneSets <= 1
    /\ graph.rainSources <= 1
    /\ graph.rumbleSources <= 1
    /\ trainGain # 0 => (trainGain = 1 /\ graph.rumbleSources = 1)

-----------------------------------------------------------------------------
(* Further claims checked under SpecAudio *)

\* C13: a scheduler() run that takes place no more than scheduleAheadTime after the
\* previous run of its session schedules no note for a time before the currentTime of
\* the call, and the first run of a session schedules its first note exactly at the
\* currentTime start() read.
C13_NoNoteInThePast ==
    lastSched.ran =>
        LET c == lastSched.calls IN
        IF lastSched.since < 0
        THEN /\ c # <<>>
             /\ c[1].time = c[1].now
             /\ \A i \in 1..Len(c) : c[i].time >= c[i].now
        ELSE lastSched.exitNow <= lastSched.since + ScheduleAheadTime =>
                \A i \in 1..Len(c) : c[i].time >= c[i].now

\* a run exactly scheduleAheadTime after the previous one schedules a note for now
C13_Witness ==
    /\ lastSched.ran
    /\ lastSched.since >= 0
    /\ lastSched.exitNow = lastSched.since + ScheduleAheadTime
    /\ lastSched.calls # <<>>
    /\ lastSched.calls[1].time = lastSched.exitNow

\* C14: within a playing session consecutive scheduleNote calls, in one scheduler() run
\* or across runs, pass times exactly one sixteenth note (0.25 * 60 / tempo s) apart.
C14_SixteenthSpacing ==
    lastSched.ran =>
        LET c == lastSched.calls
            step == 15000 \div Tempo
        IN /\ \A i \in 1..(Len(c) - 1) : c[i + 1].time = c[i].time + step
           /\ (c # <<>> /\ lastSched.prevNote >= 0) =>
                 c[1].time = lastSched.prevNote + step
           /\ c # <<>> => session.lastNote = c[Len(c)].time

\* a run that continued the notes of an earlier run of its session with two notes
C14_Witness ==
    /\ lastSched.ran
    /\ lastSched.prevNote >= 0
    /\ Len(lastSched.calls) >= 2

-----------------------------------------------------------------------------
(* A further claim checked under SpecEngine *)

\* C19: the engine is never left playing with its context suspended and no resume()
\* under way.
C19_PlayingMeansRunning ==
    ~(isPlaying /\ ctxState = "suspended" /\ ctxOps = <<>>)

-----------------------------------------------------------------------------
(* Further claims checked under Spec *)

\* C15: at most one animation-frame request of the component is pending, and while the
\* scene effect is live exactly one is: the one whose handle the component holds.
C15_OneFramePending ==
    /\ Cardinality(rafPending) <= 1
    /\ effectLive =>
          rafPending = {IF page = "Metropolis" THEN animationId ELSE requestRef}

C15_Witness ==
    /\ page = "SkyPod"
    /\ effectLive
    /\ runs = 2
    /\ frames >= 3
    /\ rafPending = {requestRef}

\* C16: after every animate invocation of MetropolisScene the orbit controls are
\* enabled exactly when cameraModeRef is ORBIT, and cameraModeRef equals the cameraMode
\* state, hence the mode the button shows once React has rendered it.
C16_ControlsFollowCameraMode ==
    page = "Metropolis" =>
        /\ lastFrame.kind # "none" => (controlsEnabled <=> cameraModeRef = "ORBIT")
        /\ cameraModeRef = cameraMode
        /\ cameraModeRef \in {"ORBIT", "CHASE"}

\* a frame ran in chase mode while the button still showed ORBIT
C16_Witness ==
    /\ page = "Metropolis"
    /\ lastFrame.kind # "none"
    /\ cameraModeRef = "CHASE"
    /\ ~controlsEnabled
    /\ shownCameraMode = "ORBIT"

\* C20: the health of the boat of SkyPodScene stays between 0 and 100.
C20_HealthInRange ==
    page = "SkyPod" => boatState.health \in 0..MaxHealth

\* C27: triggerExplosion creates and starts sound sources only while the engine is
\* playing.
C27_ExplosionsOnlyWhilePlaying ==
    [][(lastCall'.method = "triggerExplosion" /\ lastCall'.sources > 0) => isPlaying]_vars

-----------------------------------------------------------------------------
(* Claims about the Metropolis frame checked under Spec *)

\* const linePos = new Float32Array(droneCount * 2 * 3)
LaserBufferFloats == DroneCount * 2 * 3

\* C22: every particle in particlesRef is younger than 60 unpaused frames, and with the
\* 5 drones of the scene (two live explosions each at most) particlesRef never holds more
\* than 60 particles.
C22_ParticlesBounded ==
    page = "Metropolis" =>
        /\ \A i \in 1..Len(particles) :
              particles[i].life >= 1 /\ particles[i].life < ParticleLife
        /\ Len(drones) <= DroneCount
        /\ Len(particles) <= 2 * ParticlesPerExplosion * DroneCount

\* C28: a frame produces at most one laser segment per drone, dronesRef never holds
\* more than droneCount drones, and so the 6 coordinates per segment never exceed the
\* laser position buffer.
C28_LasersFitBuffer ==
    page = "Metropolis" =>
        /\ lastFrame.lasers <= Len(drones)
        /\ Len(drones) <= DroneCount
        /\ 6 * lastFrame.lasers <= LaserBufferFloats

-----------------------------------------------------------------------------
(* Claims about one animated object *)

\* the positions of the loop of the train
TrainLoop == { TrackStart + k * TrainSpeed : k \in 0..((TrackEnd - TrackStart) \div TrainSpeed) }

\* C24: trainX and podX always lie in [-200, 200], inside the generated track span
\* [-250, 249], an unpaused frame moves the train by 2 or resets it to -200, and under
\* continued unpaused frames the train is at every position of its loop again and again.
C24_TrainLoops ==
    /\ [](part \in {"train", "pod"} =>
            /\ body >= TrackStart /\ body <= TrackEnd
            /\ body >= 0 - (TrackLength \div 2)
            /\ body <= (TrackLength \div 2) - 100)
    /\ [][part = "train" =>
            body' = IF body + TrainSpeed > TrackEnd THEN TrackStart ELSE body + TrainSpeed]_vars
    /\ \A p \in TrainLoop : []<>(part = "train" => body = p)

\* the train has wrapped and come back to where it started
C24_Witness ==
    /\ part = "train"
    /\ body = TrackStart

\* C21: a laser segment is drawn to a drone, and the drone explodes, only if the drone
\* is active at that point of the frame: it was active when the frame began and has not
\* left the bounds (y > 60 or z > 20) in this frame.
C21_OnlyActiveDronesShot ==
    [][(part = "drone" /\ partObs'.kind = "drone" /\
        (partObs'.lasers > 0 \/ partObs'.explosions > 0)) =>
          /\ body.isActive
          /\ ~(body'.position.y > 6000 \/ body'.position.z > 2000)
          /\ partObs'.explosions > 0 =>
                (/\ partObs'.particles = ParticlesPerExplosion
                 /\ body'.respawnTimer >= 30 /\ body'.respawnTimer < 80)]_vars

\* C25: an inactive drone loses 1 of its respawnTimer per unpaused frame and is active
\* and visible after the first frame that finds the timer <= 0; an active drone becomes
\* inactive only by leaving the bounds or by being shot; under continued unpaused frames
\* the drone is active again and again and inactive again and again.
C25_DronesCycle ==
    /\ [][(part = "drone" /\ partObs'.kind = "drone") =>
            IF ~body.isActive
            THEN /\ body'.respawnTimer = body.respawnTimer - 1
                 /\ body'.isActive <=> body'.respawnTimer <= 0
                 /\ body'.isActive => body'.visible
            ELSE ~body'.isActive =>
                    \/ body'.position.y > 6000 \/ body'.position.z > 2000
                    \/ partObs'.explosions > 0]_vars
    /\ []<>(part = "drone" => body.isActive)
    /\ []<>(part = "drone" => ~body.isActive)

\* a drone that flew out of the bounds is about to respawn
C25_Witness ==
    /\ part = "drone"
    /\ ~body.isActive
    /\ body.position.y > 6000
    /\ body.respawnTimer = 1

\* C23: a frame adds at most one bullet to the bullets list; every bullet of the list
\* has between 1 and 59 frames of life left, one less than the frame before, so it is
\* gone no later than the 60th frame after its spawn; no bullet appears twice, older
\* bullets come first, every bullet of the list has its mesh in the scene and every mesh
\* left in the scene belongs to a bullet of the list or to a particle, and the list never
\* holds more than 60 bullets.
C23_BulletsLeave ==
    [][(part = "bullets" /\ partObs'.kind = "bullets") =>
          /\ Len(body') <= Len(body) + 1
          /\ Len(body') <= BulletLife
          /\ \A i \in 1..Len(body') :
                /\ body'[i].life >= 1 /\ body'[i].life < BulletLife
                /\ \/ i = Len(body') /\ body'[i].life = BulletLife - 1
                   \/ \E j \in 1..Len(body) :
                         /\ body[j].mesh = body'[i].mesh
                         /\ body'[i].life = body[j].life - 1
                /\ \A j \in 1..Len(body') :
                      i < j => (/\ body'[i].life < body'[j].life
                                /\ body'[i].mesh # body'[j].mesh)
          /\ partObs'.unseen = 0
          /\ partObs'.orphans = 0]_vars

\* a bullet left the list because its life reached 0: no debris, no splash
C23_Witness ==
    /\ part = "bullets"
    /\ partObs.kind = "bullets"
    /\ partObs.left = 1
    /\ partObs.particles = 0
    /\ partObs.orphans = 0

\* C26: the boat starts sinking in the first frame whose boat update sees health <= 0,
\* and only then; in a frame that leaves the boat sinking no bullet is spawned and no
\* bullet changes health, and between two sinking frames x does not advance while
\* sinkTimer grows by 0.02; the frame that takes sinkTimer above 3 resets the boat to
\* x = -150, health = 100, afloat; and a sinking boat is always afloat again later.
C26_SinkingEnds ==
    /\ [][(part = "boat" /\ partObs'.kind = "boat") =>
            /\ (~body.isSinking /\ body.health <= 0 /\ body.x + BoatSpeed <= BoatEnd)
                  => body'.isSinking
            /\ (~body.isSinking /\ body'.isSinking) => body.health <= 0
            /\ body'.isSinking =>
                  /\ partObs'.objects <= partObs'.inFlight
                  /\ partObs'.debris = 0
                  /\ body'.health = body.health
            /\ (body.isSinking /\ body'.isSinking) =>
                  /\ body'.x = body.x
                  /\ body'.sinkTimer = body.sinkTimer + 2
                  /\ body'.sinkTimer <= 300
            /\ (body.isSinking /\ ~body'.isSinking) =>
                  /\ body.sinkTimer + 2 > 300
                  /\ body'.x = 0 - BoatEnd
                  /\ body'.health <= MaxHealth
                  /\ body'.health = MaxHealth - BulletDamage * partObs'.debris]_vars
    /\ (part = "boat" /\ body.isSinking) ~> (~body.isSinking)

\* the boat sank, went under for the whole count and is afloat again at the start
C26_Witness ==
    /\ part = "boat"
    /\ ~body.isSinking
    /\ body.sinkTimer > 300
    /\ body.x = 0 - BoatEnd

\* C29: for every beat number b in 0..15 scheduleNote starts a bass note exactly when
\* b is even, at 32.70 Hz exactly when b is 0 or 8 and at 65.41 Hz otherwise, a hi-hat
\* burst exactly when b mod 4 = 2, and an arpeggio note only when b is odd; a cycle of
\* 16 steps holds 8 bass notes and 4 hi-hat bursts.
C29_BeatPattern ==
    (part = "note" /\ partObs.kind = "note") =>
        LET b == partObs.beat IN
        /\ b \in 0..(PatternLength - 1)
        /\ partObs.bass # 0 <=> b % 2 = 0
        /\ partObs.bass = 3270 <=> b \in {0, 8}
        /\ partObs.bass \in {0, 3270, 6541}
        /\ partObs.hihat <=> b % 4 = 2
        /\ partObs.arp # -1 => b % 2 = 1
        /\ b = PatternLength - 1 => (partObs.bassCount = 8 /\ partObs.hihatCount = 4)

\* the last step of a cycle
C29_Witness ==
    /\ part = "note"
    /\ partObs.kind = "note"
    /\ partObs.beat = PatternLength - 1
    /\ partObs.bassCount = 8
    /\ body = 0

\* C30: every arpeggio note uses an index noteIdx with 5 <= noteIdx <= 14, a valid
\* index of the 15-entry scale, and the frequency it assigns is defined.
C30_ArpIndexValid ==
    (part = "note" /\ partObs.kind = "note" /\ partObs.arp # -1) =>
        /\ partObs.arp >= 5 /\ partObs.arp <= 14
        /\ Len(Scale) = 15
        /\ partObs.arp < Len(Scale)
        /\ partObs.arpFreq = Scale[partObs.arp + 1]
        /\ partObs.arpFreq > 0

\* an arpeggio note on the highest index the draw allows
C30_Witness ==
    /\ part = "note"
    /\ partObs.kind = "note"
    /\ partObs.arp = 14
    /\ partObs.arpFreq = 46616

====
